---- MODULE Spec2Model ----
(***************************************************************************)
(* Model of the NetworkTables v3 wire codec of node-ntcore                 *)
(* (src/protocol/v3/v3-messages.ts).                                       *)
(*                                                                         *)
(* A Buffer is a sequence of bytes (0..255).  Offsets are the 0-based      *)
(* offsets of the source, so byte `offset` of buf is buf[offset + 1].      *)
(* A function that throws returns a record with ok = FALSE and the kind    *)
(* of the error in err; a function that returns normally has ok = TRUE.    *)
(***************************************************************************)
EXTENDS Integers, Sequences, FiniteSets, TLC

VARIABLES
    op,        \* the call made last ("init" before any call)
    from,      \* where the buffer handed to a decoder came from
    msg,       \* the message object handed to an encoder
    defs,      \* the rpcDefinitions map handed to a decoder
    buf,       \* the buffer produced by an encoder / handed to a decoder
    offset,    \* the offset handed to a decoder
    out,       \* what the call returned (or threw)
    sent,      \* stream: the messages the peer has written, in order
    wire,      \* stream: bytes written by the peer and not yet delivered
    rdOffset,  \* stream: the reader's offset into its rolling buffer
    delivered  \* stream: the messages the reader has parsed, in order

vars == <<op, from, msg, defs, buf, offset, out, sent, wire, rdOffset, delivered>>

(***************************************************************************)
(* Bounds of the model.                                                    *)
(***************************************************************************)
MaxStrLen == 1      \* longest string drawn for names and string values
MaxArrayLen == 1    \* longest array drawn for the three array types
MaxStream == 2      \* most messages written to the stream
BigArrayLen == 256  \* length of the one over-long array that is drawn
LongDefaultLen == 121 \* length of the one long default value of an RPC parameter

(***************************************************************************)
(* JavaScript values.                                                      *)
(***************************************************************************)
Undefined == -1     \* what buf[i] yields past the end of the buffer

Byte == 0..255

\* buf[i] of the source: the byte at 0-based offset i, or undefined.
At(b, i) == IF i >= 0 /\ i < Len(b) THEN b[i + 1] ELSE Undefined

\* buf.slice(a, e): the bytes at 0-based offsets a .. e-1.
Slice(b, a, e) == IF e <= a THEN <<>> ELSE SubSeq(b, a + 1, e)

\* Buffer.from([x]): an array element is stored modulo 256.
ToUInt8(x) == x % 256

\* A call that throws e.
Throw(e) == [ok |-> FALSE, err |-> e]

\* A call that returns normally and returns nothing.
Ok == [ok |-> TRUE, err |-> ""]

\* const r = <call>; <rest using r>: when the call throws, so does the caller.
Try(r, K(_)) == IF r.ok THEN K(r) ELSE Throw(r.err)

\* buf.readUInt8(o): throws a RangeError outside the buffer.
readUInt8(b, o) ==
    IF o + 1 > Len(b) THEN Throw("RangeError")
    ELSE [ok |-> TRUE, err |-> "", value |-> b[o + 1]]

\* buf.readUInt16BE(o)
readUInt16BE(b, o) ==
    IF o + 2 > Len(b) THEN Throw("RangeError")
    ELSE [ok |-> TRUE, err |-> "", value |-> b[o + 1] * 256 + b[o + 2]]

\* buf.writeUInt16BE(v) into a 2-byte buffer
writeUInt16BE(v) == <<(v \div 256) % 256, v % 256>>

(***************************************************************************)
(* protocol-utils: buffer length check, unsigned LEB128, strings.          *)
(***************************************************************************)
\* checkBufferLength(buf, offset, n): throws unless n bytes follow offset.
checkBufferLength(b, o, n) == IF Len(b) - o >= n THEN Ok ELSE Throw("Truncated")

RECURSIVE toUnsignedLEB128(_)
\* 7-bit groups, least significant first, high bit set on all but the last.
toUnsignedLEB128(n) ==
    IF n < 128 THEN <<n>>
    ELSE <<128 + (n % 128)>> \o toUnsignedLEB128(n \div 128)

RECURSIVE Pow128(_)
Pow128(k) == IF k = 0 THEN 1 ELSE 128 * Pow128(k - 1)

RECURSIVE LEBFrom(_, _, _, _)
LEBFrom(b, o, k, acc) ==
    IF o >= Len(b) THEN Throw("Truncated")
    ELSE IF b[o + 1] < 128
    THEN [ok |-> TRUE, err |-> "", value |-> acc + b[o + 1] * Pow128(k), offset |-> o + 1]
    ELSE LEBFrom(b, o + 1, k + 1, acc + (b[o + 1] % 128) * Pow128(k))

\* fromUnsignedLEB128(buf, offset): {value, offset} with offset the byte
\* after the terminator; throws when the buffer ends before a terminator.
fromUnsignedLEB128(b, o) == LEBFrom(b, o, 0, 0)

\* A string is the sequence of its code points (all below 0x800 here).
RECURSIVE UTF8(_)
UTF8(s) ==
    IF s = <<>> THEN <<>>
    ELSE (IF Head(s) < 128 THEN <<Head(s)>>
          ELSE <<192 + (Head(s) \div 64), 128 + (Head(s) % 64)>>)
         \o UTF8(Tail(s))

RECURSIVE FromUTF8(_)
\* buf.toString("utf-8"): a byte that starts no valid sequence decodes to
\* U+FFFD.
FromUTF8(b) ==
    IF b = <<>> THEN <<>>
    ELSE IF b[1] < 128 THEN <<b[1]>> \o FromUTF8(Tail(b))
    ELSE IF b[1] >= 194 /\ b[1] <= 223 /\ Len(b) >= 2 /\ b[2] >= 128 /\ b[2] <= 191
    THEN <<(b[1] - 192) * 64 + (b[2] - 128)>> \o FromUTF8(Tail(Tail(b)))
    ELSE <<65533>> \o FromUTF8(Tail(b))

\* encodeLEB128String(s) = LEB128(byteLength(UTF-8(s))) || UTF-8(s)
encodeLEB128String(s) == toUnsignedLEB128(Len(UTF8(s))) \o UTF8(s)

\* decodeLEB128String(buf, offset): {value, offset}; throws when the length
\* or the string does not fit in the buffer.
decodeLEB128String(b, o) ==
    Try(fromUnsignedLEB128(b, o), LAMBDA n :
    Try(checkBufferLength(b, n.offset, n.value), LAMBDA c :
    [ok |-> TRUE, err |-> "",
     value |-> FromUTF8(Slice(b, n.offset, n.offset + n.value)),
     offset |-> n.offset + n.value]))

(***************************************************************************)
(* ieee754: a double is its sign, biased exponent and 52-bit fraction, the *)
(* fraction kept as its top 4 bits (hi) and its low 6 bytes (lo).          *)
(***************************************************************************)
\* ieee754.write(buf, value, 0, false, 52, 8): big-endian binary64.
ieee754write(d) ==
    <<d.sign * 128 + (d.exp \div 16), (d.exp % 16) * 16 + d.hi>> \o d.lo

\* ieee754.read(buf, offset, false, 52, 8)
ieee754read(b, o) ==
    [sign |-> b[o + 1] \div 128,
     exp  |-> (b[o + 1] % 128) * 16 + (b[o + 2] \div 16),
     hi   |-> b[o + 2] % 16,
     lo   |-> Slice(b, o + 2, o + 8)]

(***************************************************************************)
(* v3-types: the message type bytes, the entry type bytes and the magic.   *)
(***************************************************************************)
KEEP_ALIVE == 0
CLIENT_HELLO == 1
PROTO_VERSION_UNSUPPORTED == 2
SERVER_HELLO_COMPLETE == 3
SERVER_HELLO == 4
CLIENT_HELLO_COMPLETE == 5
ENTRY_ASSIGNMENT == 16
ENTRY_UPDATE == 17
ENTRY_FLAGS_UPDATE == 18
ENTRY_DELETE == 19
CLEAR_ALL_ENTRIES == 20
RPC_EXECUTE == 32
RPC_RESPONSE == 33

ByteToV3MessageType ==
    {KEEP_ALIVE, CLIENT_HELLO, PROTO_VERSION_UNSUPPORTED, SERVER_HELLO_COMPLETE,
     SERVER_HELLO, CLIENT_HELLO_COMPLETE, ENTRY_ASSIGNMENT, ENTRY_UPDATE,
     ENTRY_FLAGS_UPDATE, ENTRY_DELETE, CLEAR_ALL_ENTRIES, RPC_EXECUTE, RPC_RESPONSE}

BOOLEAN_T == 0
DOUBLE_T == 1
STRING_T == 2
RAW_T == 3
BOOLEAN_ARRAY_T == 16
DOUBLE_ARRAY_T == 17
STRING_ARRAY_T == 18
RPC_T == 32

ByteToV3EntryType ==
    {BOOLEAN_T, DOUBLE_T, STRING_T, RAW_T, BOOLEAN_ARRAY_T, DOUBLE_ARRAY_T,
     STRING_ARRAY_T, RPC_T}

\* CLEAR_ALL_ENTRIES_MAGIC_VALUE = 0xD06CB27A, as its four big-endian bytes.
CLEAR_ALL_ENTRIES_MAGIC_VALUE == <<208, 108, 178, 122>>

(***************************************************************************)
(* NTEntryValue: an object whose fields bool, double, str, raw,            *)
(* bool_array, double_array, str_array and rpc are all optional.  has is   *)
(* the set of the fields that are defined; a field outside has is          *)
(* undefined, whatever the record holds for it.                            *)
(***************************************************************************)
EmptyValue ==
    [has |-> {}, bool |-> FALSE,
     double |-> [sign |-> 0, exp |-> 0, hi |-> 0, lo |-> <<0, 0, 0, 0, 0, 0>>],
     str |-> <<>>, raw |-> <<>>, bool_array |-> <<>>, double_array |-> <<>>,
     str_array |-> <<>>,
     rpc |-> [name |-> <<>>, parameters |-> <<>>, results |-> <<>>]]

\* The object { <field>: x }.
Val(field, x) == [EmptyValue EXCEPT !.has = {field}, ![field] = x]

\* Whether valueObj.<field> !== undefined.
Has(valueObj, field) == field \in valueObj.has

\* checkEntryValue without the cases of BOOLEAN and STRING.
checkEntryValue_NoBooleanNoString(type, valueObj) ==
    IF type = DOUBLE_T /\ ~Has(valueObj, "double") THEN Throw("InvalidEntryValueError")
    ELSE IF type = RAW_T /\ ~Has(valueObj, "raw") THEN Throw("InvalidEntryValueError")
    ELSE IF type = BOOLEAN_ARRAY_T /\ ~Has(valueObj, "bool_array")
    THEN Throw("InvalidEntryValueError")
    ELSE IF type = DOUBLE_ARRAY_T /\ ~Has(valueObj, "double_array")
    THEN Throw("InvalidEntryValueError")
    ELSE IF type = STRING_ARRAY_T /\ ~Has(valueObj, "str_array")
    THEN Throw("InvalidEntryValueError")
    ELSE IF type = RPC_T /\ ~Has(valueObj, "rpc") THEN Throw("InvalidEntryValueError")
    ELSE Ok

\* checkEntryValue(type, valueObj): throws InvalidEntryValueError when the
\* field of the declared type is undefined.
checkEntryValue(type, valueObj) ==
    IF type = BOOLEAN_T /\ ~Has(valueObj, "bool") THEN Throw("InvalidEntryValueError")
    ELSE IF type = DOUBLE_T /\ ~Has(valueObj, "double") THEN Throw("InvalidEntryValueError")
    ELSE IF type = STRING_T /\ ~Has(valueObj, "str") THEN Throw("InvalidEntryValueError")
    ELSE IF type = RAW_T /\ ~Has(valueObj, "raw") THEN Throw("InvalidEntryValueError")
    ELSE IF type = BOOLEAN_ARRAY_T /\ ~Has(valueObj, "bool_array")
    THEN Throw("InvalidEntryValueError")
    ELSE IF type = DOUBLE_ARRAY_T /\ ~Has(valueObj, "double_array")
    THEN Throw("InvalidEntryValueError")
    ELSE IF type = STRING_ARRAY_T /\ ~Has(valueObj, "str_array")
    THEN Throw("InvalidEntryValueError")
    ELSE IF type = RPC_T /\ ~Has(valueObj, "rpc") THEN Throw("InvalidEntryValueError")
    ELSE Ok

\* entryFlagsToUInt8(flags): flags is null, a non-object, or an object with
\* a persistent field.
entryFlagsToUInt8(flags) ==
    IF flags.isObject /\ ~flags.isNull /\ flags.persistent THEN 1 ELSE 0

\* UInt8ToEntryFlags comparing the whole byte with 1.
UInt8ToEntryFlags_WholeByte(flagByte) ==
    [isObject |-> TRUE, isNull |-> FALSE, persistent |-> (flagByte = 1)]

\* UInt8ToEntryFlags(flagByte); undefined & 0x1 is 0.
UInt8ToEntryFlags(flagByte) ==
    [isObject |-> TRUE, isNull |-> FALSE,
     persistent |-> (flagByte # Undefined /\ flagByte % 2 = 1)]

(***************************************************************************)
(* Encoding entry values and RPC definitions.                              *)
(***************************************************************************)
\* A call that returns the buffer b.
Bytes(b) == [ok |-> TRUE, err |-> "", bytes |-> b]

\* The bytes of a boolean[] mapped through (val ? 1 : 0).
BoolBytes(a) == [i \in 1..Len(a) |-> IF a[i] THEN 1 ELSE 0]

\* The concatenated big-endian doubles of a number[].
RECURSIVE DoubleBytes(_)
DoubleBytes(a) ==
    IF a = <<>> THEN <<>> ELSE ieee754write(Head(a)) \o DoubleBytes(Tail(a))

\* The concatenated length-prefixed strings of a string[].
RECURSIVE StringBytes(_)
StringBytes(a) ==
    IF a = <<>> THEN <<>> ELSE encodeLEB128String(Head(a)) \o StringBytes(Tail(a))

RECURSIVE entryValueToBuffer(_, _)
RECURSIVE encodeRPCParameterSpecs(_)

\* encodeRPCParameterSpec(param)
encodeRPCParameterSpec(param) ==
    Try(entryValueToBuffer(param.type, param.value), LAMBDA v :
    Bytes(<<param.type>> \o encodeLEB128String(param.name) \o v.bytes))

\* encodeRPCResultSpec(result): the type byte and the name only.
encodeRPCResultSpec(result) ==
    <<result.type>> \o encodeLEB128String(result.name)

\* rpcDef.parameters.map(encodeRPCParameterSpec), concatenated.
encodeRPCParameterSpecs(params) ==
    IF params = <<>> THEN Bytes(<<>>)
    ELSE Try(encodeRPCParameterSpec(Head(params)), LAMBDA h :
         Try(encodeRPCParameterSpecs(Tail(params)), LAMBDA t :
         Bytes(h.bytes \o t.bytes)))

\* rpcDef.results.map(encodeRPCResultSpec), concatenated.
RECURSIVE encodeRPCResultSpecs(_)
encodeRPCResultSpecs(results) ==
    IF results = <<>> THEN <<>>
    ELSE encodeRPCResultSpec(Head(results)) \o encodeRPCResultSpecs(Tail(results))

\* encodeRPCDefinition(rpcDef)
encodeRPCDefinition(rpcDef) ==
    Try(encodeRPCParameterSpecs(rpcDef.parameters), LAMBDA p :
    Bytes(<<1>> \o encodeLEB128String(rpcDef.name)
          \o <<ToUInt8(Len(rpcDef.parameters))>> \o p.bytes
          \o <<ToUInt8(Len(rpcDef.results))>>
          \o encodeRPCResultSpecs(rpcDef.results)))

\* The RPC case of entryValueToBuffer: the length is written as one byte.
RpcValueToBuffer(rpcDef) ==
    Try(encodeRPCDefinition(rpcDef), LAMBDA encodedRpcBuf :
    Bytes(<<ToUInt8(Len(encodedRpcBuf.bytes))>> \o encodedRpcBuf.bytes))

\* The switch of entryValueToBuffer.  A type outside the switch returns
\* undefined, on which every caller's Buffer.concat throws a TypeError; a
\* field that is undefined behaves as JavaScript makes it behave.
ValueToBuffer(type, valueObj) ==
    IF type = BOOLEAN_T
    THEN Bytes(<<IF Has(valueObj, "bool") /\ valueObj.bool THEN 1 ELSE 0>>)
    ELSE IF type = DOUBLE_T
    THEN IF Has(valueObj, "double") THEN Bytes(ieee754write(valueObj.double))
         ELSE Bytes(<<127, 248, 0, 0, 0, 0, 0, 0>>)
    ELSE IF type = STRING_T
    THEN IF ~Has(valueObj, "str") THEN Throw("TypeError")
         ELSE Bytes(encodeLEB128String(valueObj.str))
    ELSE IF type = RAW_T
    THEN IF ~Has(valueObj, "raw") THEN Throw("TypeError")
         ELSE Bytes(toUnsignedLEB128(Len(valueObj.raw)) \o valueObj.raw)
    ELSE IF type = BOOLEAN_ARRAY_T
    THEN IF ~Has(valueObj, "bool_array") THEN Throw("TypeError")
         ELSE Bytes(<<ToUInt8(Len(valueObj.bool_array))>> \o BoolBytes(valueObj.bool_array))
    ELSE IF type = DOUBLE_ARRAY_T
    THEN IF ~Has(valueObj, "double_array") THEN Throw("TypeError")
         ELSE Bytes(<<ToUInt8(Len(valueObj.double_array))>>
                    \o DoubleBytes(valueObj.double_array))
    ELSE IF type = STRING_ARRAY_T
    THEN IF ~Has(valueObj, "str_array") THEN Throw("TypeError")
         ELSE Bytes(<<ToUInt8(Len(valueObj.str_array))>> \o StringBytes(valueObj.str_array))
    ELSE IF type = RPC_T
    THEN IF ~Has(valueObj, "rpc") THEN Throw("TypeError")
         ELSE RpcValueToBuffer(valueObj.rpc)
    ELSE Throw("TypeError")

\* entryValueToBuffer(type, valueObj): checkEntryValue, then the switch.
entryValueToBuffer(type, valueObj) ==
    Try(checkEntryValue(type, valueObj), LAMBDA c : ValueToBuffer(type, valueObj))


(***************************************************************************)
(* Decoding entry values and RPC definitions.                              *)
(***************************************************************************)
\* A call that returns {value: v, newOffset: o}.
Value(v, o) == [ok |-> TRUE, err |-> "", value |-> v, newOffset |-> o]

\* The loop of the DOUBLE_ARRAY case.
RECURSIVE ReadDoubles(_, _, _)
ReadDoubles(b, o, n) ==
    IF n = 0 THEN <<>> ELSE <<ieee754read(b, o)>> \o ReadDoubles(b, o + 8, n - 1)

\* The loop of the STRING_ARRAY case: decodeLEB128String, n times.
RECURSIVE ReadStrings(_, _, _, _)
ReadStrings(b, o, n, acc) ==
    IF n = 0 THEN Value(acc, o)
    ELSE Try(decodeLEB128String(b, o), LAMBDA strResult :
         ReadStrings(b, strResult.offset, n - 1, Append(acc, strResult.value)))

RECURSIVE entryValueFromBuffer(_, _, _)
RECURSIVE decodeRPCParameterSpecs(_, _, _, _)

\* decodeRPCParameterSpec(buf, offset): the type byte is not validated.
decodeRPCParameterSpec(b, o) ==
    Try(decodeLEB128String(b, o + 1), LAMBDA paramNameResult :
    Try(entryValueFromBuffer(At(b, o), b, paramNameResult.offset), LAMBDA defaultValueResult :
    Value([type |-> At(b, o), name |-> paramNameResult.value,
           value |-> defaultValueResult.value],
          defaultValueResult.newOffset)))

\* decodeRPCResultSpec reading a value of the spec's type after the name.
decodeRPCResultSpec_ReadsValue(b, o) ==
    Try(decodeLEB128String(b, o + 1), LAMBDA resultNameResult :
    Try(entryValueFromBuffer(At(b, o), b, resultNameResult.offset), LAMBDA valueResult :
    Value([type |-> At(b, o), name |-> resultNameResult.value, value |-> valueResult.value],
          valueResult.newOffset)))

\* decodeRPCResultSpec(buf, offset): the type byte is not validated and no
\* value is read.
decodeRPCResultSpec(b, o) ==
    Try(decodeLEB128String(b, o + 1), LAMBDA resultNameResult :
    Value([type |-> At(b, o), name |-> resultNameResult.value, value |-> EmptyValue],
          resultNameResult.offset))

\* for (i < numParams) decodeRPCParameterSpec; an undefined count runs the
\* loop zero times.
decodeRPCParameterSpecs(b, o, n, acc) ==
    IF n <= 0 THEN Value(acc, o)
    ELSE Try(decodeRPCParameterSpec(b, o), LAMBDA decodedParam :
         decodeRPCParameterSpecs(b, decodedParam.newOffset, n - 1,
                                 Append(acc, decodedParam.value)))

\* for (i < numResults) decodeRPCResultSpec
RECURSIVE decodeRPCResultSpecs(_, _, _, _)
decodeRPCResultSpecs(b, o, n, acc) ==
    IF n <= 0 THEN Value(acc, o)
    ELSE Try(decodeRPCResultSpec(b, o), LAMBDA decodedResult :
         decodeRPCResultSpecs(b, decodedResult.newOffset, n - 1,
                              Append(acc, decodedResult.value)))

\* decodeRPCDefinition without the comparison of the version byte.
decodeRPCDefinition_AnyVersion(b, o) ==
    Try(decodeLEB128String(b, o + 1), LAMBDA procedureNameResult :
    Try(decodeRPCParameterSpecs(b, procedureNameResult.offset + 1,
                                At(b, procedureNameResult.offset), <<>>), LAMBDA params :
    Try(decodeRPCResultSpecs(b, params.newOffset + 1, At(b, params.newOffset), <<>>),
        LAMBDA results :
    Value([name |-> procedureNameResult.value, parameters |-> params.value,
           results |-> results.value],
          results.newOffset))))

\* decodeRPCDefinition(buf, offset): the two counts are read with buf[i].
decodeRPCDefinition(b, o) ==
    IF At(b, o) # 1 THEN Throw("UnsupportedRpcVersion")
    ELSE Try(decodeLEB128String(b, o + 1), LAMBDA procedureNameResult :
         Try(decodeRPCParameterSpecs(b, procedureNameResult.offset + 1,
                                     At(b, procedureNameResult.offset), <<>>), LAMBDA params :
         Try(decodeRPCResultSpecs(b, params.newOffset + 1, At(b, params.newOffset), <<>>),
             LAMBDA results :
         Value([name |-> procedureNameResult.value, parameters |-> params.value,
                results |-> results.value],
               results.newOffset))))

\* entryValueFromBuffer(type, buf, offset).  For a type outside the switch
\* the function returns undefined and every caller throws a TypeError on
\* reading its value.
entryValueFromBuffer(type, b, o) ==
    IF type = BOOLEAN_T
    THEN Try(checkBufferLength(b, o, 1), LAMBDA c :
         Value(Val("bool", b[o + 1] = 1), o + 1))
    ELSE IF type = DOUBLE_T
    THEN Try(checkBufferLength(b, o, 8), LAMBDA c :
         Value(Val("double", ieee754read(b, o)), o + 8))
    ELSE IF type = STRING_T
    THEN Try(decodeLEB128String(b, o), LAMBDA strResult :
         Value(Val("str", strResult.value), strResult.offset))
    ELSE IF type = RAW_T
    THEN Try(fromUnsignedLEB128(b, o), LAMBDA dataLenResult :
         Try(checkBufferLength(b, dataLenResult.offset, dataLenResult.value), LAMBDA c :
         Value(Val("raw", Slice(b, dataLenResult.offset,
                                dataLenResult.offset + dataLenResult.value)),
               dataLenResult.offset + dataLenResult.value)))
    ELSE IF type = BOOLEAN_ARRAY_T
    THEN Try(readUInt8(b, o), LAMBDA numElems :
         Try(checkBufferLength(b, o + 1, numElems.value), LAMBDA c :
         Value(Val("bool_array", [i \in 1..numElems.value |-> b[o + 1 + i] = 1]),
               o + 1 + numElems.value)))
    ELSE IF type = DOUBLE_ARRAY_T
    THEN Try(readUInt8(b, o), LAMBDA numElems :
         Try(checkBufferLength(b, o + 1, numElems.value * 8), LAMBDA c :
         Value(Val("double_array", ReadDoubles(b, o + 1, numElems.value)),
               o + 1 + numElems.value * 8)))
    ELSE IF type = STRING_ARRAY_T
    THEN Try(readUInt8(b, o), LAMBDA numElems :
         Try(checkBufferLength(b, o + 1, numElems.value), LAMBDA c :
         Try(ReadStrings(b, o + 1, numElems.value, <<>>), LAMBDA strs :
         Value(Val("str_array", strs.value), strs.newOffset))))
    ELSE IF type = RPC_T
    THEN Try(fromUnsignedLEB128(b, o), LAMBDA bufLenResult :
         Try(checkBufferLength(b, bufLenResult.offset, bufLenResult.value), LAMBDA c :
         Try(decodeRPCDefinition(b, bufLenResult.offset), LAMBDA rpcDefinitionResult :
         Value(Val("rpc", rpcDefinitionResult.value), rpcDefinitionResult.newOffset))))
    ELSE Throw("TypeError")

(***************************************************************************)
(* Messages: encoders.                                                     *)
(***************************************************************************)
keepAliveMessageToBuffer == Bytes(<<KEEP_ALIVE>>)

\* clientHelloMessageToBuffer writing the version the message carries.
clientHelloMessageToBuffer_VersionOfMessage(m) ==
    Bytes(<<CLIENT_HELLO, ToUInt8(m.protocolMajor), ToUInt8(m.protocolMinor)>>
          \o encodeLEB128String(m.clientIdent))

\* The version bytes are the literals 3 and 0, not msg.protocolMajor/Minor.
clientHelloMessageToBuffer(m) ==
    Bytes(<<CLIENT_HELLO, 3, 0>> \o encodeLEB128String(m.clientIdent))

protoVersionUnsupportedMessageToBuffer(m) ==
    Bytes(<<PROTO_VERSION_UNSUPPORTED>>
          \o <<ToUInt8(m.serverSupportedProtocolMajor),
               ToUInt8(m.serverSupportedProtocolMinor)>>)

serverHelloCompleteMessageToBuffer == Bytes(<<SERVER_HELLO_COMPLETE>>)

serverHelloMessageToBuffer(m) ==
    Bytes(<<SERVER_HELLO, IF m.clientPreviouslySeen THEN 1 ELSE 0>>
          \o encodeLEB128String(m.serverIdentity))

clientHelloCompleteMessageToBuffer == Bytes(<<CLIENT_HELLO_COMPLETE>>)

entryAssignmentMessageToBuffer(m) ==
    Try(checkEntryValue(m.entryType, m.entryValue), LAMBDA c :
    Try(entryValueToBuffer(m.entryType, m.entryValue), LAMBDA v :
    Bytes(<<ENTRY_ASSIGNMENT>> \o encodeLEB128String(m.entryName)
          \o <<ToUInt8(m.entryType)>>
          \o writeUInt16BE(m.entryId) \o writeUInt16BE(m.entrySeq)
          \o <<entryFlagsToUInt8(m.entryFlags)>> \o v.bytes)))

entryUpdateMessageToBuffer(m) ==
    Try(checkEntryValue(m.entryType, m.entryValue), LAMBDA c :
    Try(entryValueToBuffer(m.entryType, m.entryValue), LAMBDA v :
    Bytes(<<ENTRY_UPDATE>>
          \o writeUInt16BE(m.entryId) \o writeUInt16BE(m.entrySeq)
          \o <<ToUInt8(m.entryType)>> \o v.bytes)))

entryFlagsUpdateMessageToBuffer(m) ==
    Bytes(<<ENTRY_FLAGS_UPDATE>> \o writeUInt16BE(m.entryId)
          \o <<entryFlagsToUInt8(m.entryFlags)>>)

entryDeleteMessageToBuffer(m) ==
    Bytes(<<ENTRY_DELETE>> \o writeUInt16BE(m.entryId))

clearAllEntriesMessageToBuffer ==
    Bytes(<<CLEAR_ALL_ENTRIES>> \o CLEAR_ALL_ENTRIES_MAGIC_VALUE)

\* list.map(x => entryValueToBuffer(x.type, x.value)), concatenated.
RECURSIVE ValueBufs(_)
ValueBufs(list) ==
    IF list = <<>> THEN Bytes(<<>>)
    ELSE Try(entryValueToBuffer(Head(list).type, Head(list).value), LAMBDA h :
         Try(ValueBufs(Tail(list)), LAMBDA t :
         Bytes(h.bytes \o t.bytes)))

rpcExecuteMessageToBuffer(m) ==
    Try(ValueBufs(m.parameters), LAMBDA paramBufs :
    Bytes(<<RPC_EXECUTE>> \o writeUInt16BE(m.rpcDefinitionId)
          \o writeUInt16BE(m.uniqueId)
          \o toUnsignedLEB128(Len(m.parameters)) \o paramBufs.bytes))

rpcResponseMessageToBuffer(m) ==
    Try(ValueBufs(m.results), LAMBDA resultBufs :
    Bytes(<<RPC_RESPONSE>> \o writeUInt16BE(m.rpcDefinitionId)
          \o writeUInt16BE(m.uniqueId)
          \o toUnsignedLEB128(Len(m.results)) \o resultBufs.bytes))

\* The encoder of a message's variant.
MessageToBuffer(m) ==
    CASE m.type = KEEP_ALIVE -> keepAliveMessageToBuffer
      [] m.type = CLIENT_HELLO -> clientHelloMessageToBuffer(m)
      [] m.type = PROTO_VERSION_UNSUPPORTED -> protoVersionUnsupportedMessageToBuffer(m)
      [] m.type = SERVER_HELLO_COMPLETE -> serverHelloCompleteMessageToBuffer
      [] m.type = SERVER_HELLO -> serverHelloMessageToBuffer(m)
      [] m.type = CLIENT_HELLO_COMPLETE -> clientHelloCompleteMessageToBuffer
      [] m.type = ENTRY_ASSIGNMENT -> entryAssignmentMessageToBuffer(m)
      [] m.type = ENTRY_UPDATE -> entryUpdateMessageToBuffer(m)
      [] m.type = ENTRY_FLAGS_UPDATE -> entryFlagsUpdateMessageToBuffer(m)
      [] m.type = ENTRY_DELETE -> entryDeleteMessageToBuffer(m)
      [] m.type = CLEAR_ALL_ENTRIES -> clearAllEntriesMessageToBuffer
      [] m.type = RPC_EXECUTE -> rpcExecuteMessageToBuffer(m)
      [] m.type = RPC_RESPONSE -> rpcResponseMessageToBuffer(m)

(***************************************************************************)
(* Messages: decoders.                                                     *)
(***************************************************************************)
\* A call that returns {message: m, newOffset: o}.
Parsed(m, o) == [ok |-> TRUE, err |-> "", message |-> m, newOffset |-> o]

\* checkMessageType(buf, offset, expectedType)
checkMessageType(b, o, expectedType) ==
    IF At(b, o) # expectedType THEN Throw("InvalidMessageTypeError") ELSE Ok

keepAliveMessageFromBuffer(b, o) ==
    Try(checkBufferLength(b, o, 1), LAMBDA c :
    Try(checkMessageType(b, o, KEEP_ALIVE), LAMBDA t :
    Parsed([type |-> KEEP_ALIVE], o + 1)))

clientHelloMessageFromBuffer(b, o) ==
    Try(checkBufferLength(b, o, 4), LAMBDA c :
    Try(checkMessageType(b, o, CLIENT_HELLO), LAMBDA t :
    Try(readUInt8(b, o + 1), LAMBDA protocolMajor :
    Try(readUInt8(b, o + 2), LAMBDA protocolMinor :
    Try(decodeLEB128String(b, o + 3), LAMBDA clientIdent :
    Parsed([type |-> CLIENT_HELLO, protocolMajor |-> protocolMajor.value,
            protocolMinor |-> protocolMinor.value, clientIdent |-> clientIdent.value],
           clientIdent.offset))))))

protoVersionUnsupportedMessageFromBuffer(b, o) ==
    Try(checkBufferLength(b, o, 3), LAMBDA c :
    Try(checkMessageType(b, o, PROTO_VERSION_UNSUPPORTED), LAMBDA t :
    Try(readUInt8(b, o + 1), LAMBDA serverSupportedProtocolMajor :
    Try(readUInt8(b, o + 2), LAMBDA serverSupportedProtocolMinor :
    Parsed([type |-> PROTO_VERSION_UNSUPPORTED,
            serverSupportedProtocolMajor |-> serverSupportedProtocolMajor.value,
            serverSupportedProtocolMinor |-> serverSupportedProtocolMinor.value],
           o + 3)))))

serverHelloCompleteMessageFromBuffer(b, o) ==
    Try(checkBufferLength(b, o, 1), LAMBDA c :
    Try(checkMessageType(b, o, SERVER_HELLO_COMPLETE), LAMBDA t :
    Parsed([type |-> SERVER_HELLO_COMPLETE], o + 1)))

\* clientPreviouslySeen is (flags & 0x1) === 1.
serverHelloMessageFromBuffer(b, o) ==
    Try(checkBufferLength(b, o, 3), LAMBDA c :
    Try(checkMessageType(b, o, SERVER_HELLO), LAMBDA t :
    Try(decodeLEB128String(b, o + 2), LAMBDA serverIdentity :
    Parsed([type |-> SERVER_HELLO, clientPreviouslySeen |-> (At(b, o + 1) % 2 = 1),
            serverIdentity |-> serverIdentity.value],
           serverIdentity.offset))))

clientHelloCompleteMessageFromBuffer(b, o) ==
    Try(checkBufferLength(b, o, 1), LAMBDA c :
    Try(checkMessageType(b, o, CLIENT_HELLO_COMPLETE), LAMBDA t :
    Parsed([type |-> CLIENT_HELLO_COMPLETE], o + 1)))

\* The type byte is looked up only after the length check, the message type
\* check and the decoding of the name.
entryAssignmentMessageFromBuffer(b, o) ==
    Try(checkBufferLength(b, o, 9), LAMBDA c :
    Try(checkMessageType(b, o, ENTRY_ASSIGNMENT), LAMBDA t :
    Try(decodeLEB128String(b, o + 1), LAMBDA entryNameResult :
    IF At(b, entryNameResult.offset) \notin ByteToV3EntryType
    THEN Throw("InvalidEntryTypeError")
    ELSE Try(readUInt16BE(b, entryNameResult.offset + 1), LAMBDA entryId :
         Try(readUInt16BE(b, entryNameResult.offset + 3), LAMBDA entrySeq :
         Try(entryValueFromBuffer(At(b, entryNameResult.offset), b,
                                  entryNameResult.offset + 6), LAMBDA entryValueResult :
         Parsed([type |-> ENTRY_ASSIGNMENT, entryName |-> entryNameResult.value,
                 entryType |-> At(b, entryNameResult.offset),
                 entryId |-> entryId.value, entrySeq |-> entrySeq.value,
                 entryFlags |-> UInt8ToEntryFlags(At(b, entryNameResult.offset + 5)),
                 entryValue |-> entryValueResult.value],
                entryValueResult.newOffset)))))))

\* entryUpdateMessageFromBuffer without the lookup of the type byte.
entryUpdateMessageFromBuffer_NoTypeCheck(b, o) ==
    Try(checkBufferLength(b, o, 7), LAMBDA c :
    Try(checkMessageType(b, o, ENTRY_UPDATE), LAMBDA t :
    Try(readUInt16BE(b, o + 1), LAMBDA entryId :
    Try(readUInt16BE(b, o + 3), LAMBDA entrySeq :
    Try(entryValueFromBuffer(At(b, o + 5), b, o + 6), LAMBDA entryValueResult :
    Parsed([type |-> ENTRY_UPDATE, entryId |-> entryId.value,
            entrySeq |-> entrySeq.value, entryType |-> At(b, o + 5),
            entryValue |-> entryValueResult.value],
           entryValueResult.newOffset))))))

entryUpdateMessageFromBuffer(b, o) ==
    Try(checkBufferLength(b, o, 7), LAMBDA c :
    Try(checkMessageType(b, o, ENTRY_UPDATE), LAMBDA t :
    Try(readUInt16BE(b, o + 1), LAMBDA entryId :
    Try(readUInt16BE(b, o + 3), LAMBDA entrySeq :
    IF At(b, o + 5) \notin ByteToV3EntryType
    THEN Throw("InvalidEntryTypeError")
    ELSE Try(entryValueFromBuffer(At(b, o + 5), b, o + 6), LAMBDA entryValueResult :
         Parsed([type |-> ENTRY_UPDATE, entryId |-> entryId.value,
                 entrySeq |-> entrySeq.value, entryType |-> At(b, o + 5),
                 entryValue |-> entryValueResult.value],
                entryValueResult.newOffset))))))

entryFlagsUpdateMessageFromBuffer(b, o) ==
    Try(checkBufferLength(b, o, 4), LAMBDA c :
    Try(checkMessageType(b, o, ENTRY_FLAGS_UPDATE), LAMBDA t :
    Try(readUInt16BE(b, o + 1), LAMBDA entryId :
    Parsed([type |-> ENTRY_FLAGS_UPDATE, entryId |-> entryId.value,
            entryFlags |-> UInt8ToEntryFlags(At(b, o + 3))],
           o + 4))))

\* The id is read with buf.readUInt16BE(1): at offset 1 of the buffer, not
\* at offset + 1.
entryDeleteMessageFromBuffer(b, o) ==
    Try(checkBufferLength(b, o, 3), LAMBDA c :
    Try(checkMessageType(b, o, ENTRY_DELETE), LAMBDA t :
    Try(readUInt16BE(b, 1), LAMBDA entryId :
    Parsed([type |-> ENTRY_DELETE, entryId |-> entryId.value], o + 3))))

\* buf.readUInt32BE(o), as its four bytes.
readUInt32BE(b, o) ==
    IF o + 4 > Len(b) THEN Throw("RangeError")
    ELSE [ok |-> TRUE, err |-> "", value |-> Slice(b, o, o + 4)]

\* The magic is read with buf.readUInt32BE(1): at offset 1 of the buffer,
\* not at offset + 1.
clearAllEntriesMessageFromBuffer(b, o) ==
    Try(checkBufferLength(b, o, 5), LAMBDA c :
    Try(checkMessageType(b, o, CLEAR_ALL_ENTRIES), LAMBDA t :
    Try(readUInt32BE(b, 1), LAMBDA magic :
    IF magic.value # CLEAR_ALL_ENTRIES_MAGIC_VALUE THEN Throw("InvalidEntryValueError")
    ELSE Parsed([type |-> CLEAR_ALL_ENTRIES], o + 5))))

\* The loop of the two RPC decoders: the i-th value is decoded with the
\* type of the definition's i-th parameter / result and carries its name.
RECURSIVE ReadValues(_, _, _, _, _)
ReadValues(specs, b, o, i, acc) ==
    IF i > Len(specs) THEN Value(acc, o)
    ELSE Try(entryValueFromBuffer(specs[i].type, b, o), LAMBDA valueResult :
         ReadValues(specs, b, valueResult.newOffset, i + 1,
                    Append(acc, [type |-> specs[i].type, name |-> specs[i].name,
                                 value |-> valueResult.value])))

\* rpcExecuteMessageFromBuffer without the comparison of the counts.
rpcExecuteMessageFromBuffer_NoCountCheck(rpcDefinitions, b, o) ==
    Try(checkBufferLength(b, o, 6), LAMBDA c :
    Try(checkMessageType(b, o, RPC_EXECUTE), LAMBDA t :
    Try(readUInt16BE(b, o + 1), LAMBDA rpcDefinitionId :
    IF rpcDefinitionId.value \notin DOMAIN rpcDefinitions THEN Throw("NoRpcDefinition")
    ELSE Try(readUInt16BE(b, o + 3), LAMBDA uniqueId :
         Try(fromUnsignedLEB128(b, o + 5), LAMBDA numParamResults :
         Try(ReadValues(rpcDefinitions[rpcDefinitionId.value].parameters, b,
                        numParamResults.offset, 1, <<>>), LAMBDA parameters :
         Parsed([type |-> RPC_EXECUTE, rpcDefinitionId |-> rpcDefinitionId.value,
                 uniqueId |-> uniqueId.value, parameters |-> parameters.value],
                parameters.newOffset)))))))

\* rpcDefinitions is a function from entry ids to definitions.
rpcExecuteMessageFromBuffer(rpcDefinitions, b, o) ==
    Try(checkBufferLength(b, o, 6), LAMBDA c :
    Try(checkMessageType(b, o, RPC_EXECUTE), LAMBDA t :
    Try(readUInt16BE(b, o + 1), LAMBDA rpcDefinitionId :
    IF rpcDefinitionId.value \notin DOMAIN rpcDefinitions THEN Throw("NoRpcDefinition")
    ELSE Try(readUInt16BE(b, o + 3), LAMBDA uniqueId :
         Try(fromUnsignedLEB128(b, o + 5), LAMBDA numParamResults :
         IF numParamResults.value # Len(rpcDefinitions[rpcDefinitionId.value].parameters)
         THEN Throw("RpcCountMismatch")
         ELSE Try(ReadValues(rpcDefinitions[rpcDefinitionId.value].parameters, b,
                             numParamResults.offset, 1, <<>>), LAMBDA parameters :
              Parsed([type |-> RPC_EXECUTE, rpcDefinitionId |-> rpcDefinitionId.value,
                      uniqueId |-> uniqueId.value, parameters |-> parameters.value],
                     parameters.newOffset)))))))

rpcResponseMessageFromBuffer(rpcDefinitions, b, o) ==
    Try(checkBufferLength(b, o, 6), LAMBDA c :
    Try(checkMessageType(b, o, RPC_RESPONSE), LAMBDA t :
    Try(readUInt16BE(b, o + 1), LAMBDA rpcDefinitionId :
    IF rpcDefinitionId.value \notin DOMAIN rpcDefinitions THEN Throw("NoRpcDefinition")
    ELSE Try(readUInt16BE(b, o + 3), LAMBDA uniqueId :
         Try(fromUnsignedLEB128(b, o + 5), LAMBDA numResultsResult :
         IF numResultsResult.value # Len(rpcDefinitions[rpcDefinitionId.value].results)
         THEN Throw("RpcCountMismatch")
         ELSE Try(ReadValues(rpcDefinitions[rpcDefinitionId.value].results, b,
                             numResultsResult.offset, 1, <<>>), LAMBDA results :
              Parsed([type |-> RPC_RESPONSE, rpcDefinitionId |-> rpcDefinitionId.value,
                      uniqueId |-> uniqueId.value, results |-> results.value],
                     results.newOffset)))))))

\* getMessageType(buf, offset): throws unless buf[offset] is a message type.
getMessageType(b, o) ==
    IF At(b, o) \notin ByteToV3MessageType THEN Throw("InvalidMessageTypeError")
    ELSE [ok |-> TRUE, err |-> "", value |-> At(b, o)]

\* The switch of getNextAvailableMessage: the decoder called for msgType.
\* KEEP_ALIVE and SERVER_HELLO_COMPLETE are answered without a decoder.
MessageFromBuffer(msgType, rpcDefinitions, b, o) ==
    CASE msgType = KEEP_ALIVE -> Parsed([type |-> msgType], o + 1)
      [] msgType = CLIENT_HELLO -> clientHelloMessageFromBuffer(b, o)
      [] msgType = PROTO_VERSION_UNSUPPORTED -> protoVersionUnsupportedMessageFromBuffer(b, o)
      [] msgType = SERVER_HELLO_COMPLETE -> Parsed([type |-> msgType], o + 1)
      [] msgType = SERVER_HELLO -> serverHelloMessageFromBuffer(b, o)
      [] msgType = CLIENT_HELLO_COMPLETE -> clientHelloCompleteMessageFromBuffer(b, o)
      [] msgType = ENTRY_UPDATE -> entryUpdateMessageFromBuffer(b, o)
      [] msgType = ENTRY_ASSIGNMENT -> entryAssignmentMessageFromBuffer(b, o)
      [] msgType = ENTRY_FLAGS_UPDATE -> entryFlagsUpdateMessageFromBuffer(b, o)
      [] msgType = ENTRY_DELETE -> entryDeleteMessageFromBuffer(b, o)
      [] msgType = CLEAR_ALL_ENTRIES -> clearAllEntriesMessageFromBuffer(b, o)
      [] msgType = RPC_EXECUTE -> rpcExecuteMessageFromBuffer(rpcDefinitions, b, o)
      [] msgType = RPC_RESPONSE -> rpcResponseMessageFromBuffer(rpcDefinitions, b, o)

\* What getNextAvailableMessage returns from its catch blocks.
undefined == [ok |-> FALSE, err |-> "undefined"]

\* try { r = <call>; <rest using r> } catch (e) { return undefined; }
Catch(r, K(_)) == IF r.ok THEN K(r) ELSE undefined

\* getNextAvailableMessage without the try around getMessageType.
getNextAvailableMessage_NoCatch(rpcDefinitions, b, o) ==
    Try(getMessageType(b, o), LAMBDA msgType :
    Catch(MessageFromBuffer(msgType.value, rpcDefinitions, b, o), LAMBDA result :
    Parsed(result.message, result.newOffset)))

\* getNextAvailableMessage reporting the end of the buffer as newOffset.
getNextAvailableMessage_WholeBuffer(rpcDefinitions, b, o) ==
    Catch(getMessageType(b, o), LAMBDA msgType :
    Catch(MessageFromBuffer(msgType.value, rpcDefinitions, b, o), LAMBDA result :
    Parsed(result.message, Len(b))))

\* getNextAvailableMessage(rpcDefinitions, buf, offset): both catch blocks
\* return undefined, whatever was thrown.
getNextAvailableMessage(rpcDefinitions, b, o) ==
    Catch(getMessageType(b, o), LAMBDA msgType :
    Catch(MessageFromBuffer(msgType.value, rpcDefinitions, b, o), LAMBDA result :
    Parsed(result.message, result.newOffset)))

(***************************************************************************)
(* The inputs drawn: strings, doubles, entry values, RPC definitions,      *)
(* definition maps, flags and messages.                                    *)
(***************************************************************************)
SeqsUpTo(S, n) == UNION {[1..k -> S] : k \in 0..n}

\* "a" and "e-acute": one code point of one UTF-8 byte and one of two.
Chars == {97, 233}
Strings == SeqsUpTo(Chars, MaxStrLen)

\* 1.0 and 0.1
Doubles ==
    {[sign |-> 0, exp |-> 1023, hi |-> 0, lo |-> <<0, 0, 0, 0, 0, 0>>],
     [sign |-> 0, exp |-> 1019, hi |-> 9, lo |-> <<153, 153, 153, 153, 153, 154>>]}

RawBytes == {7, 200}

EntryTypes == ByteToV3EntryType

DefEmpty == [name |-> <<>>, parameters |-> <<>>, results |-> <<>>]

\* A definition with a parameter whose default value is a string.
DefStr ==
    [name |-> <<97>>,
     parameters |-> <<[type |-> STRING_T, name |-> <<97>>, value |-> Val("str", <<233>>)]>>,
     results |-> <<[type |-> DOUBLE_T, name |-> <<233>>, value |-> EmptyValue]>>]

DefTwo ==
    [name |-> <<97, 97>>,
     parameters |-> <<[type |-> BOOLEAN_T, name |-> <<97>>, value |-> Val("bool", TRUE)],
                      [type |-> RAW_T, name |-> <<>>, value |-> Val("raw", <<7>>)]>>,
     results |-> <<[type |-> BOOLEAN_T, name |-> <<97>>, value |-> EmptyValue],
                   [type |-> STRING_T, name |-> <<>>, value |-> EmptyValue]>>]

\* A definition whose serialized form is LongDefaultLen + 7 bytes long: its
\* one parameter has a boolean array of LongDefaultLen elements as default.
DefLong ==
    [name |-> <<>>,
     parameters |-> <<[type |-> BOOLEAN_ARRAY_T, name |-> <<>>,
                       value |-> Val("bool_array", [i \in 1..LongDefaultLen |-> TRUE])]>>,
     results |-> <<>>]

RpcDefs == {DefEmpty, DefStr, DefTwo, DefLong}

\* The values whose variant is the one the entry type declares.
ValuesOf(type) ==
    CASE type = BOOLEAN_T -> {Val("bool", x) : x \in BOOLEAN}
      [] type = DOUBLE_T -> {Val("double", x) : x \in Doubles}
      [] type = STRING_T -> {Val("str", x) : x \in Strings}
      [] type = RAW_T -> {Val("raw", x) : x \in SeqsUpTo(RawBytes, MaxArrayLen)}
      [] type = BOOLEAN_ARRAY_T ->
            {Val("bool_array", x) : x \in SeqsUpTo(BOOLEAN, MaxArrayLen)}
            \cup {Val("bool_array", [i \in 1..BigArrayLen |-> TRUE])}
      [] type = DOUBLE_ARRAY_T ->
            {Val("double_array", x) : x \in SeqsUpTo(Doubles, MaxArrayLen)}
      [] type = STRING_ARRAY_T ->
            {Val("str_array", x) : x \in SeqsUpTo(Strings, MaxArrayLen)}
      [] type = RPC_T -> {Val("rpc", x) : x \in RpcDefs}

\* One value object of each shape, the empty object included.
OneOfEach ==
    {EmptyValue, Val("bool", TRUE), Val("str", <<97>>), Val("raw", <<7>>),
     Val("bool_array", <<TRUE>>), Val("str_array", <<<<97>>>>), Val("rpc", DefEmpty)}
    \cup {Val("double", x) : x \in Doubles}
    \cup {Val("double_array", <<x>>) : x \in Doubles}

\* A declared type with a value: every matching pair, and pairs that do
\* not match.
TypedValues ==
    {[type |-> t, value |-> v] : t \in EntryTypes, v \in OneOfEach}
    \cup UNION {{[type |-> t, value |-> v] : v \in ValuesOf(t)} : t \in EntryTypes}

\* Flags objects, null, and a value that is no object.
Flag(p) == [isObject |-> TRUE, isNull |-> FALSE, persistent |-> p]
NullFlags == [isObject |-> TRUE, isNull |-> TRUE, persistent |-> FALSE]
NonObjectFlags == [isObject |-> FALSE, isNull |-> FALSE, persistent |-> FALSE]
FlagObjects == {Flag(TRUE), Flag(FALSE)}
AnyFlags == FlagObjects \cup {NullFlags, NonObjectFlags}

\* 16-bit ids and sequence numbers whose two bytes differ.
Ids == {5, 258}
Seqs == {513}

\* Parameter / result lists of RPC messages: those of the definitions, and
\* lists with one value fewer or one more.
ValueLists ==
    {<<>>, DefStr.parameters, DefTwo.parameters,
     SubSeq(DefTwo.parameters, 1, 1),
     Append(DefTwo.parameters, [type |-> BOOLEAN_T, name |-> <<97>>, value |-> Val("bool", FALSE)]),
     <<[type |-> DOUBLE_T, name |-> <<233>>, value |-> Val("double", CHOOSE d \in Doubles : d.hi = 9)]>>,
     <<[type |-> BOOLEAN_T, name |-> <<97>>, value |-> Val("bool", FALSE)],
       [type |-> STRING_T, name |-> <<>>, value |-> Val("str", <<233>>)]>>,
     <<[type |-> STRING_T, name |-> <<97>>, value |-> Val("bool", TRUE)]>>}

\* rpcDefinitions maps: empty, and maps that hold definitions under ids of Ids.
NoDefs == [i \in {} |-> DefEmpty]
DefMaps ==
    {NoDefs, [i \in {258} |-> DefTwo], [i \in {5, 258} |-> IF i = 5 THEN DefStr ELSE DefTwo],
     [i \in {5} |-> DefEmpty]}

Messages ==
    {[type |-> t] : t \in {KEEP_ALIVE, SERVER_HELLO_COMPLETE, CLIENT_HELLO_COMPLETE,
                           CLEAR_ALL_ENTRIES}}
    \cup {[type |-> CLIENT_HELLO, protocolMajor |-> a, protocolMinor |-> i, clientIdent |-> s] :
            a \in {2, 3}, i \in {0, 1}, s \in Strings}
    \cup {[type |-> PROTO_VERSION_UNSUPPORTED, serverSupportedProtocolMajor |-> a,
           serverSupportedProtocolMinor |-> i] : a \in {2, 3}, i \in {0, 1}}
    \cup {[type |-> SERVER_HELLO, clientPreviouslySeen |-> c, serverIdentity |-> s] :
            c \in BOOLEAN, s \in Strings}
    \cup {[type |-> ENTRY_ASSIGNMENT, entryName |-> s, entryType |-> tv.type, entryId |-> i,
           entrySeq |-> q, entryFlags |-> f, entryValue |-> tv.value] :
            s \in Strings, tv \in TypedValues, i \in {258}, q \in Seqs, f \in FlagObjects}
    \cup {[type |-> ENTRY_UPDATE, entryType |-> tv.type, entryId |-> i, entrySeq |-> q,
           entryValue |-> tv.value] : tv \in TypedValues, i \in Ids, q \in Seqs}
    \cup {[type |-> ENTRY_FLAGS_UPDATE, entryId |-> i, entryFlags |-> f] :
            i \in Ids, f \in AnyFlags}
    \cup {[type |-> ENTRY_DELETE, entryId |-> i] : i \in Ids \cup {65535}}
    \cup {[type |-> RPC_EXECUTE, rpcDefinitionId |-> i, uniqueId |-> q, parameters |-> l] :
            i \in Ids, q \in Seqs, l \in ValueLists}
    \cup {[type |-> RPC_RESPONSE, rpcDefinitionId |-> i, uniqueId |-> q, results |-> l] :
            i \in Ids, q \in Seqs, l \in ValueLists}

\* The maps a message is decoded against: only the two RPC decoders read
\* the map.
DefMapsFor(t) == IF t \in {RPC_EXECUTE, RPC_RESPONSE} THEN DefMaps ELSE {NoDefs}

\* Bytes that follow a message in the buffer.
ExtraBytes == {<<0>>, <<255>>, <<1, 3>>}


\* The messages written to the stream.
StreamMessages ==
    {[type |-> KEEP_ALIVE], [type |-> CLEAR_ALL_ENTRIES],
     [type |-> ENTRY_DELETE, entryId |-> 5],
     [type |-> ENTRY_FLAGS_UPDATE, entryId |-> 258, entryFlags |-> Flag(TRUE)]}

\* Buffers whose bytes are all present and which are no message: an
\* unrecognized message type byte, an unrecognized entry type byte in an
\* ENTRY_UPDATE and in an ENTRY_ASSIGNMENT, a wrong clear-all magic, and an
\* RPC definition of version 2 as the value of an ENTRY_UPDATE.
MalformedBuffers ==
    {<<255>>, <<6>>,
     <<ENTRY_UPDATE, 0, 5, 2, 1, 5, 0>>,
     <<ENTRY_ASSIGNMENT, 1, 97, 4, 0, 5, 2, 1, 0, 0>>,
     <<CLEAR_ALL_ENTRIES, 0, 0, 0, 0>>,
     <<CLEAR_ALL_ENTRIES, 208, 108, 178, 123>>,
     <<ENTRY_UPDATE, 0, 5, 2, 1, RPC_T, 4, 2, 0, 0, 0>>}

\* What precedes a CLEAR_ALL_ENTRIES message in the buffer, and the four
\* bytes that follow its type byte.
ClearAllPrefixes ==
    {<<>>, <<KEEP_ALIVE>>, <<ENTRY_DELETE, 0, 5>>,
     <<CLEAR_ALL_ENTRIES>> \o CLEAR_ALL_ENTRIES_MAGIC_VALUE}
Magics == {CLEAR_ALL_ENTRIES_MAGIC_VALUE, <<0, 0, 0, 0>>, <<208, 108, 178, 123>>}

\* The bytes of an ENTRY_ASSIGNMENT (name "a") and of an ENTRY_UPDATE up to
\* the entry type byte, and bytes that follow the type byte.
TypeByteHeader(t) ==
    IF t = ENTRY_ASSIGNMENT THEN <<ENTRY_ASSIGNMENT, 1, 97>>
    ELSE <<ENTRY_UPDATE, 1, 2, 2, 1>>
Followers ==
    {<<>>, <<0>>, <<0, 5, 2, 1>>, <<0, 5, 2, 1, 0>>, <<0, 5, 2, 1, 0, 1>>,
     <<255, 255, 255, 255, 255, 255, 255>>}

\* A definition whose result specs carry values, which the encoder is handed
\* and does not write.
DefResultValues ==
    [name |-> <<97>>,
     parameters |-> <<>>,
     results |-> <<[type |-> DOUBLE_T, name |-> <<97>>,
                    value |-> Val("double", CHOOSE d \in Doubles : d.hi = 9)],
                   [type |-> STRING_T, name |-> <<233>>, value |-> Val("str", <<97>>)]>>]

\* The definitions handed to encodeRPCDefinition.
Definitions == RpcDefs \cup {DefResultValues}

\* What precedes a serialized definition in the buffer.
DefinitionPrefixes == {<<>>, <<1>>, <<RPC_T, 4>>}

\* The bytes that follow the version byte of a definition with an empty
\* name, no parameter and no result; and a buffer that ends with the
\* version byte.
VersionTails == {<<0, 0, 0>>, <<>>}

\* Buffers a peer can send that no encoder of this module produces: the
\* empty buffer; an ENTRY_UPDATE whose RPC definition ends after its name;
\* one whose declared definition length is 1 while the definition is 4 bytes
\* long; one whose definition has a result spec, and one a parameter spec,
\* with the type byte 0x55; an ENTRY_ASSIGNMENT with such a result spec; and
\* buffers that hold two messages.
CraftedBuffers ==
    {<<>>,
     <<ENTRY_UPDATE, 0, 5, 2, 1, RPC_T, 2, 1, 0>>,
     <<ENTRY_UPDATE, 0, 5, 2, 1, RPC_T, 1, 1, 0, 0, 0>>,
     <<ENTRY_UPDATE, 0, 5, 2, 1, RPC_T, 6, 1, 0, 0, 1, 85, 0>>,
     <<ENTRY_UPDATE, 0, 5, 2, 1, RPC_T, 6, 1, 0, 1, 85, 0, 0>>,
     <<ENTRY_ASSIGNMENT, 1, 97, RPC_T, 1, 2, 2, 1, 1, 7, 1, 0, 0, 1, 200, 1, 97>>,
     <<KEEP_ALIVE, ENTRY_FLAGS_UPDATE, 1, 2, 1>>,
     <<RPC_EXECUTE, 0, 5, 2, 1, 0, CLIENT_HELLO, 3, 0, 1, 97>>}

\* The bytes a peer that follows the wire format sends for an entry value:
\* those of entryValueToBuffer, but with the length of an RPC definition as
\* unsigned LEB128.
WireValue(type, valueObj) ==
    IF type = RPC_T
    THEN toUnsignedLEB128(Len(encodeRPCDefinition(valueObj.rpc).bytes))
         \o encodeRPCDefinition(valueObj.rpc).bytes
    ELSE entryValueToBuffer(type, valueObj).bytes

\* The bytes such a peer sends for a message the encoder accepts.
Wire(m) ==
    IF m.type \in {ENTRY_ASSIGNMENT, ENTRY_UPDATE}
    THEN SubSeq(MessageToBuffer(m).bytes, 1,
                Len(MessageToBuffer(m).bytes)
                - Len(entryValueToBuffer(m.entryType, m.entryValue).bytes))
         \o WireValue(m.entryType, m.entryValue)
    ELSE MessageToBuffer(m).bytes

\* The first k bytes of w, or w followed by one more byte.
Cut(w, k) == IF k <= Len(w) THEN SubSeq(w, 1, k) ELSE w \o <<0>>

NoMessage == [type |-> Undefined]
NoOut == [ok |-> FALSE, err |-> "none"]

(***************************************************************************)
(* The state machine: a caller of the codec.  Each action is one call.     *)
(***************************************************************************)
Init ==
    /\ op = "init"
    /\ from = "none"
    /\ msg = NoMessage
    /\ defs = NoDefs
    /\ buf = <<>>
    /\ offset = 0
    /\ out = NoOut
    /\ sent = <<>>
    /\ wire = <<>>
    /\ rdOffset = 0
    /\ delivered = <<>>

StreamIdle == UNCHANGED <<sent, wire, rdOffset, delivered>>

\* What an encoder leaves: its buffer, or nothing when it threw.
Encoded(r) ==
    /\ out' = r
    /\ buf' = IF r.ok THEN r.bytes ELSE <<>>

\* A caller encodes a message with the encoder of its variant.
Encode ==
    /\ op = "init"
    /\ \E m \in Messages :
        /\ msg' = m
        /\ Encoded(MessageToBuffer(m))
    /\ op' = "encode"
    /\ from' = "none"
    /\ UNCHANGED <<defs, offset>>
    /\ StreamIdle

\* A caller encodes an entry value with entryValueToBuffer.
EncodeValue ==
    /\ op = "init"
    /\ \E tv \in TypedValues :
        /\ msg' = [type |-> Undefined, entryType |-> tv.type, entryValue |-> tv.value]
        /\ Encoded(entryValueToBuffer(tv.type, tv.value))
    /\ op' = "encodeValue"
    /\ from' = "none"
    /\ UNCHANGED <<defs, offset>>
    /\ StreamIdle

\* The encoded message is handed whole to getNextAvailableMessage.
DecodeExact ==
    /\ op = "encode" /\ out.ok
    /\ \E d \in DefMapsFor(msg.type) :
        /\ defs' = d
        /\ out' = getNextAvailableMessage(d, buf, 0)
    /\ op' = "getNext"
    /\ from' = "exact"
    /\ UNCHANGED <<msg, buf, offset>>
    /\ StreamIdle

\* A proper prefix of the encoded message is handed to getNextAvailableMessage.
DecodePrefix ==
    /\ op = "encode" /\ out.ok
    /\ \E d \in DefMapsFor(msg.type), k \in 0..(Len(buf) - 1) :
        /\ defs' = d
        /\ buf' = SubSeq(buf, 1, k)
        /\ out' = getNextAvailableMessage(d, buf', 0)
    /\ op' = "getNext"
    /\ from' = "prefix"
    /\ UNCHANGED <<msg, offset>>
    /\ StreamIdle

\* The encoded message followed by more bytes is handed to
\* getNextAvailableMessage.
DecodeExtended ==
    /\ op = "encode" /\ out.ok
    /\ \E d \in DefMapsFor(msg.type), x \in ExtraBytes :
        /\ defs' = d
        /\ buf' = buf \o x
        /\ out' = getNextAvailableMessage(d, buf', 0)
    /\ op' = "getNext"
    /\ from' = "extended"
    /\ UNCHANGED <<msg, offset>>
    /\ StreamIdle

\* The wire-format bytes of an encoded ENTRY_UPDATE that carries an RPC
\* definition, a prefix of them, or they and one more byte, are handed to
\* getNextAvailableMessage.
DecodeWire ==
    /\ op = "encode" /\ out.ok
    /\ msg.type = ENTRY_UPDATE /\ msg.entryType = RPC_T
    /\ \E k \in 0..(Len(buf) + 2) :
        /\ buf' = Cut(Wire(msg), k)
        /\ out' = getNextAvailableMessage(defs, buf', 0)
    /\ op' = "getNext"
    /\ from' = "wire"
    /\ UNCHANGED <<msg, defs, offset>>
    /\ StreamIdle

\* An encoded RPC message is handed to the decoder of its variant, which
\* throws what getNextAvailableMessage would catch.
DecodeDirect ==
    /\ op = "encode" /\ out.ok
    /\ msg.type \in {RPC_EXECUTE, RPC_RESPONSE}
    /\ \E d \in DefMaps :
        /\ defs' = d
        /\ out' = MessageFromBuffer(msg.type, d, buf, 0)
    /\ op' = "direct"
    /\ from' = "exact"
    /\ UNCHANGED <<msg, buf, offset>>
    /\ StreamIdle

\* A buffer that is complete and is no message is handed to
\* getNextAvailableMessage.
DecodeMalformed ==
    /\ op = "init"
    /\ \E b \in MalformedBuffers :
        /\ buf' = b
        /\ out' = getNextAvailableMessage(NoDefs, b, 0)
    /\ op' = "getNext"
    /\ from' = "malformed"
    /\ UNCHANGED <<msg, defs, offset>>
    /\ StreamIdle

\* A buffer with the type byte of CLEAR_ALL_ENTRIES at some offset and four
\* bytes after it is handed to getNextAvailableMessage at that offset.
DecodeClearAll ==
    /\ op = "init"
    /\ \E p \in ClearAllPrefixes, g \in Magics, x \in {<<>>, <<0>>} :
        /\ buf' = p \o <<CLEAR_ALL_ENTRIES>> \o g \o x
        /\ offset' = Len(p)
        /\ out' = getNextAvailableMessage(NoDefs, buf', offset')
    /\ msg' = [type |-> CLEAR_ALL_ENTRIES]
    /\ op' = "getNext"
    /\ from' = "clearAll"
    /\ UNCHANGED defs
    /\ StreamIdle

\* An ENTRY_ASSIGNMENT or ENTRY_UPDATE with any byte as its entry type is
\* handed to the decoder of its variant.
DecodeTypeByte ==
    /\ op = "init"
    /\ \E t \in {ENTRY_ASSIGNMENT, ENTRY_UPDATE}, e \in Byte, f \in Followers :
        /\ msg' = [type |-> t, entryType |-> e]
        /\ buf' = TypeByteHeader(t) \o <<e>> \o f
        /\ out' = MessageFromBuffer(t, NoDefs, buf', 0)
    /\ op' = "direct"
    /\ from' = "typeByte"
    /\ UNCHANGED <<defs, offset>>
    /\ StreamIdle

\* A caller turns entry flags into their byte.
FlagsToUInt8 ==
    /\ op = "init"
    /\ \E f \in AnyFlags :
        /\ msg' = [type |-> Undefined, entryFlags |-> f]
        /\ out' = [ok |-> TRUE, err |-> "", byte |-> entryFlagsToUInt8(f)]
    /\ buf' = <<out'.byte>>
    /\ op' = "flagsToUInt8"
    /\ from' = "none"
    /\ UNCHANGED <<defs, offset>>
    /\ StreamIdle

\* A caller turns the byte just produced back into entry flags.
FlagsRoundTrip ==
    /\ op = "flagsToUInt8"
    /\ out' = [ok |-> TRUE, err |-> "", flags |-> UInt8ToEntryFlags(buf[1])]
    /\ op' = "flagsRoundTrip"
    /\ UNCHANGED <<from, msg, defs, buf, offset>>
    /\ StreamIdle

\* A caller turns any byte into entry flags.
UInt8ToFlags ==
    /\ op = "init"
    /\ \E b \in Byte :
        /\ buf' = <<b>>
        /\ out' = [ok |-> TRUE, err |-> "", flags |-> UInt8ToEntryFlags(b)]
    /\ op' = "uint8ToFlags"
    /\ from' = "none"
    /\ UNCHANGED <<msg, defs, offset>>
    /\ StreamIdle

\* A caller serializes an RPC definition with encodeRPCDefinition.
EncodeDefinition ==
    /\ op = "init"
    /\ \E d \in Definitions :
        /\ msg' = [type |-> Undefined, rpc |-> d]
        /\ Encoded(encodeRPCDefinition(d))
    /\ op' = "encodeRPCDefinition"
    /\ from' = "none"
    /\ UNCHANGED <<defs, offset>>
    /\ StreamIdle

\* The serialized definition, at some offset of a buffer and with or
\* without bytes after it, is handed to decodeRPCDefinition.
DecodeDefinition ==
    /\ op = "encodeRPCDefinition" /\ out.ok
    /\ \E p \in DefinitionPrefixes, x \in ExtraBytes \cup {<<>>} :
        /\ buf' = p \o buf \o x
        /\ offset' = Len(p)
        /\ out' = decodeRPCDefinition(buf', offset')
    /\ op' = "decodeRPCDefinition"
    /\ from' = "encoded"
    /\ UNCHANGED <<msg, defs>>
    /\ StreamIdle

\* decodeRPCDefinition is called at a byte of any value, at the end of the
\* buffer, and past its end.
DecodeVersion ==
    /\ op = "init"
    /\ \E p \in DefinitionPrefixes, v \in Byte, t \in VersionTails :
        \E o \in {0, Len(t) + 1, Len(t) + 2} :
            /\ buf' = p \o <<v>> \o t
            /\ offset' = Len(p) + o
            /\ out' = decodeRPCDefinition(buf', offset')
    /\ op' = "decodeRPCDefinition"
    /\ from' = "version"
    /\ UNCHANGED <<msg, defs>>
    /\ StreamIdle

\* The encoded entry value is handed to entryValueFromBuffer with the type
\* it was encoded with.
DecodeValue ==
    /\ op = "encodeValue" /\ out.ok
    /\ out' = entryValueFromBuffer(msg.entryType, buf, 0)
    /\ op' = "decodeValue"
    /\ from' = "encoded"
    /\ UNCHANGED <<msg, defs, buf, offset>>
    /\ StreamIdle

\* A buffer that no encoder produced is handed to getNextAvailableMessage
\* at any offset up to one past its end, with any definitions map.
DecodeCrafted ==
    /\ op = "init"
    /\ \E b \in CraftedBuffers, d \in DefMaps :
        \E o \in 0..(Len(b) + 1) :
            /\ buf' = b
            /\ defs' = d
            /\ offset' = o
            /\ out' = getNextAvailableMessage(d, b, o)
    /\ op' = "getNext"
    /\ from' = "crafted"
    /\ UNCHANGED msg
    /\ StreamIdle

StreamOps == {"write", "deliver", "read"}

\* The peer's encoded message joins the bytes in flight.
Written(m, r) ==
    /\ r.ok
    /\ msg' = m
    /\ sent' = Append(sent, m)
    /\ wire' = wire \o r.bytes

\* The peer writes one more message to the connection.
Write ==
    /\ op \in StreamOps \cup {"init"}
    /\ Len(sent) < MaxStream
    /\ \E m \in StreamMessages : Written(m, MessageToBuffer(m))
    /\ op' = "write"
    /\ from' = "stream"
    /\ UNCHANGED <<defs, buf, offset, out, rdOffset, delivered>>

\* A chunk of the bytes in flight arrives and is appended to the reader's
\* rolling buffer.
Deliver ==
    /\ op \in StreamOps
    /\ \E k \in 1..Len(wire) :
        /\ buf' = buf \o SubSeq(wire, 1, k)
        /\ wire' = SubSeq(wire, k + 1, Len(wire))
    /\ op' = "deliver"
    /\ UNCHANGED <<from, msg, defs, offset, out, sent, rdOffset, delivered>>

\* The reader advances to newOffset on a parsed message and keeps its
\* offset on undefined.
ReadResult(r) ==
    /\ out' = r
    /\ delivered' = IF r.ok THEN Append(delivered, r.message) ELSE delivered
    /\ rdOffset' = IF r.ok THEN r.newOffset ELSE rdOffset

\* The reader calls getNextAvailableMessage at its offset into the rolling
\* buffer.
Read ==
    /\ op \in StreamOps
    /\ ReadResult(getNextAvailableMessage(defs, buf, rdOffset))
    /\ offset' = rdOffset
    /\ op' = "read"
    /\ UNCHANGED <<from, msg, defs, buf, sent, wire>>

Next ==
    \/ Encode
    \/ EncodeValue
    \/ DecodeExact
    \/ DecodePrefix
    \/ DecodeExtended
    \/ DecodeWire
    \/ DecodeDirect
    \/ DecodeMalformed
    \/ DecodeClearAll
    \/ DecodeTypeByte
    \/ EncodeDefinition
    \/ DecodeDefinition
    \/ DecodeVersion
    \/ DecodeValue
    \/ DecodeCrafted
    \/ FlagsToUInt8
    \/ FlagsRoundTrip
    \/ UInt8ToFlags
    \/ Write
    \/ Deliver
    \/ Read

Spec == Init /\ [][Next]_vars

(***************************************************************************)
(* Vocabulary of the properties.                                           *)
(***************************************************************************)
\* The field of NTEntryValue that carries the payload of an entry type.
FieldOf(type) ==
    CASE type = BOOLEAN_T -> "bool"
      [] type = DOUBLE_T -> "double"
      [] type = STRING_T -> "str"
      [] type = RAW_T -> "raw"
      [] type = BOOLEAN_ARRAY_T -> "bool_array"
      [] type = DOUBLE_ARRAY_T -> "double_array"
      [] type = STRING_ARRAY_T -> "str_array"
      [] type = RPC_T -> "rpc"

\* The value payload matches the declared entry type.
Matches(type, valueObj) == FieldOf(type) \in valueObj.has

\* The value object holds the payload of the declared type and nothing else.
Exactly(type, valueObj) == valueObj.has = {FieldOf(type)}

\* The values of an RPC message are those the definition's specs ask for.
Follows(list, specs) ==
    /\ Len(list) = Len(specs)
    /\ \A i \in 1..Len(list) :
        /\ list[i].type = specs[i].type
        /\ list[i].name = specs[i].name
        /\ Exactly(list[i].type, list[i].value)

\* A message a well-behaved peer sends: protocol version 3.0, flags that
\* are an object, a value of exactly the declared type, and RPC values that
\* follow the definition the receiver holds under the message's id.
Canonical(m, d) ==
    CASE m.type = CLIENT_HELLO -> m.protocolMajor = 3 /\ m.protocolMinor = 0
      [] m.type = ENTRY_ASSIGNMENT ->
            Exactly(m.entryType, m.entryValue) /\ m.entryFlags \in FlagObjects
      [] m.type = ENTRY_UPDATE -> Exactly(m.entryType, m.entryValue)
      [] m.type = ENTRY_FLAGS_UPDATE -> m.entryFlags \in FlagObjects
      [] m.type = RPC_EXECUTE ->
            m.rpcDefinitionId \in DOMAIN d
            /\ Follows(m.parameters, d[m.rpcDefinitionId].parameters)
      [] m.type = RPC_RESPONSE ->
            m.rpcDefinitionId \in DOMAIN d
            /\ Follows(m.results, d[m.rpcDefinitionId].results)
      [] OTHER -> TRUE

\* The number of bytes the messages of a list serialize to.
RECURSIVE SerializedLength(_)
SerializedLength(list) ==
    IF list = <<>> THEN 0
    ELSE Len(MessageToBuffer(Head(list)).bytes) + SerializedLength(Tail(list))

\* s is t or a prefix of t.
IsPrefix(s, t) == Len(s) <= Len(t) /\ s = SubSeq(t, 1, Len(s))

\* Whether the flags value is persistent.
Persistent(f) == f \in FlagObjects /\ f.persistent

\* The least number of bytes of an ENTRY_ASSIGNMENT and of an ENTRY_UPDATE.
MinLength(t) == IF t = ENTRY_ASSIGNMENT THEN 9 ELSE 7

(***************************************************************************)
(* C1.  Message round-trip: the message a canonical message encodes to is  *)
(* parsed by getNextAvailableMessage at offset 0 into a message equal to   *)
(* it field by field, with newOffset the length of the encoded buffer.     *)
(***************************************************************************)
C1_RoundTrip ==
    (op = "getNext" /\ from = "exact" /\ Canonical(msg, defs))
        => out = Parsed(msg, Len(buf))

\* No array of the message has more elements than the count byte of the
\* wire format can hold.
WithinLimits(m) ==
    m.type \in {ENTRY_ASSIGNMENT, ENTRY_UPDATE}
        => /\ Len(m.entryValue.bool_array) <= 255
           /\ Len(m.entryValue.double_array) <= 255
           /\ Len(m.entryValue.str_array) <= 255

(***************************************************************************)
(* C2.  Incremental parse safety: of the wire-format bytes of a canonical  *)
(* message, L bytes long, getNextAvailableMessage at offset 0 yields       *)
(* undefined on every proper prefix, the message with newOffset = L on     *)
(* the L bytes, and the same message with newOffset = L on the L bytes     *)
(* followed by more bytes.                                                 *)
(***************************************************************************)
C2_IncrementalParse ==
    (/\ op = "getNext"
     /\ from \in {"prefix", "exact", "extended", "wire"}
     /\ Canonical(msg, defs)
     /\ WithinLimits(msg))
        => /\ (Len(buf) < Len(Wire(msg)) /\ IsPrefix(buf, Wire(msg))) => out = undefined
           /\ IsPrefix(Wire(msg), buf) => out = Parsed(msg, Len(Wire(msg)))

C2_Witness ==
    /\ op = "getNext" /\ from = "wire"
    /\ msg.entryValue.rpc = DefLong
    /\ Len(buf) = Len(Wire(msg)) + 1
    /\ out = Parsed(msg, Len(buf) - 1)

(***************************************************************************)
(* C3.  Stream framing and order: whatever the chunks, the reader has      *)
(* delivered a prefix of the messages written, in order and field for      *)
(* field, its offset is the number of bytes those messages serialize to,   *)
(* and it is told to wait only while bytes of a message are missing.       *)
(***************************************************************************)
C3_StreamOrder ==
    op \in StreamOps =>
        /\ IsPrefix(delivered, sent)
        /\ rdOffset = SerializedLength(delivered)
        /\ (op = "read" /\ ~out.ok /\ wire = <<>>) => delivered = sent

(***************************************************************************)
(* C4.  The top-level decoder distinguishes malformation from truncation:  *)
(* for a buffer whose bytes are present and invalid, the result of         *)
(* getNextAvailableMessage is not the one it gives for a proper prefix of  *)
(* a valid message (undefined).                                            *)
(***************************************************************************)
C4_InvalidDistinguished ==
    (op = "getNext" /\ from = "malformed") => out # undefined

(***************************************************************************)
(* C5.  Clear-all magic: a CLEAR_ALL_ENTRIES type byte at any offset is    *)
(* parsed with newOffset = offset + 5 when the four bytes after it are     *)
(* 0xD06CB27A and yields no message when they are not, whatever precedes   *)
(* it in the buffer.                                                       *)
(***************************************************************************)
C5_ClearAllMagic ==
    (op = "getNext" /\ from = "clearAll")
        => IF Slice(buf, offset + 1, offset + 5) = CLEAR_ALL_ENTRIES_MAGIC_VALUE
           THEN out = Parsed([type |-> CLEAR_ALL_ENTRIES], offset + 5)
           ELSE ~out.ok

\* The list of values of an RPC message and the specs of a definition it
\* is decoded against.
RpcValues(m) == IF m.type = RPC_EXECUTE THEN m.parameters ELSE m.results
RpcSpecs(m, def) == IF m.type = RPC_EXECUTE THEN def.parameters ELSE def.results

(***************************************************************************)
(* C6.  RPC decode against the definition table: an encoded RPC_EXECUTE or *)
(* RPC_RESPONSE whose definition id is no key of the map fails with the    *)
(* no-definition error; one whose count differs from the number of         *)
(* parameters / results of the definition fails with the count-mismatch    *)
(* error; and a message that is returned has, as its i-th value, a value   *)
(* of the type (and with the name) of the definition's i-th parameter /    *)
(* result.                                                                 *)
(***************************************************************************)
C6_RpcDecode ==
    (op = "direct" /\ from = "exact") =>
        IF msg.rpcDefinitionId \notin DOMAIN defs
        THEN out = Throw("NoRpcDefinition")
        ELSE IF Len(RpcValues(msg)) # Len(RpcSpecs(msg, defs[msg.rpcDefinitionId]))
        THEN out = Throw("RpcCountMismatch")
        ELSE out.ok =>
                /\ out.message.type = msg.type
                /\ Follows(RpcValues(out.message), RpcSpecs(msg, defs[msg.rpcDefinitionId]))

C6_Witness ==
    /\ op = "direct" /\ from = "exact"
    /\ msg.type = RPC_EXECUTE
    /\ msg.rpcDefinitionId \in DOMAIN defs
    /\ Len(defs[msg.rpcDefinitionId].parameters) = 2
    /\ Len(msg.parameters) = 3
    /\ out = Throw("RpcCountMismatch")

\* Whether an encoder was handed a value that does not match its type.
RECURSIVE SomeMismatch(_)
SomeMismatch(list) ==
    list # <<>> /\ (~Matches(Head(list).type, Head(list).value) \/ SomeMismatch(Tail(list)))
Mismatched(m) ==
    CASE m.type \in {Undefined, ENTRY_ASSIGNMENT, ENTRY_UPDATE} ->
            ~Matches(m.entryType, m.entryValue)
      [] m.type \in {RPC_EXECUTE, RPC_RESPONSE} -> SomeMismatch(RpcValues(m))
      [] OTHER -> FALSE

(***************************************************************************)
(* C7.  Encoder type check: entryValueToBuffer, the ENTRY_ASSIGNMENT and   *)
(* ENTRY_UPDATE encoders and the two RPC encoders throw                    *)
(* InvalidEntryValueError and produce no bytes when a value does not carry *)
(* the payload of its declared entry type, for each of the eight types.    *)
(***************************************************************************)
C7_EncoderTypeCheck ==
    (op \in {"encode", "encodeValue"} /\ Mismatched(msg))
        => out = Throw("InvalidEntryValueError") /\ buf = <<>>

C7_Witness ==
    /\ op = "encodeValue"
    /\ msg.entryType = STRING_T
    /\ msg.entryValue = Val("bool", TRUE)
    /\ out = Throw("InvalidEntryValueError")

(***************************************************************************)
(* C8, as stated.  Decoder type check: an ENTRY_ASSIGNMENT or ENTRY_UPDATE *)
(* whose entry type byte is none of the eight recognized fails with        *)
(* InvalidEntryTypeError, whatever bytes follow the type byte.             *)
(***************************************************************************)
C8_AnyFollowers ==
    (op = "direct" /\ from = "typeByte" /\ msg.entryType \notin ByteToV3EntryType)
        => out = Throw("InvalidEntryTypeError")

(***************************************************************************)
(* C8, amended.  An ENTRY_ASSIGNMENT or ENTRY_UPDATE whose entry type byte *)
(* is none of the eight recognized never yields a message; it fails with   *)
(* InvalidEntryTypeError when the buffer holds at least 9 bytes            *)
(* (ENTRY_ASSIGNMENT) or 7 bytes (ENTRY_UPDATE), and with the length error *)
(* when it holds fewer.                                                    *)
(***************************************************************************)
C8_DecoderTypeCheck ==
    (op = "direct" /\ from = "typeByte" /\ msg.entryType \notin ByteToV3EntryType)
        => out = IF Len(buf) >= MinLength(msg.type)
                 THEN Throw("InvalidEntryTypeError")
                 ELSE Throw("Truncated")

C8_Witness ==
    /\ op = "direct" /\ from = "typeByte"
    /\ msg.type = ENTRY_UPDATE
    /\ msg.entryType = 5
    /\ Len(buf) = 13
    /\ out = Throw("InvalidEntryTypeError")

(***************************************************************************)
(* C9.  CLIENT_HELLO encoding: clientHelloMessageToBuffer emits the type   *)
(* byte 0x01, major 3, minor 0 and the length-prefixed UTF-8 identity,     *)
(* whatever protocolMajor / protocolMinor the message carries; for the     *)
(* empty identity these are the four bytes 01 03 00 00.                    *)
(***************************************************************************)
C9_ClientHello ==
    (op = "encode" /\ msg.type = CLIENT_HELLO) =>
        /\ out.ok
        /\ buf = <<1, 3, 0, Len(UTF8(msg.clientIdent))>> \o UTF8(msg.clientIdent)
        /\ msg.clientIdent = <<>> => buf = <<1, 3, 0, 0>>

C9_Witness ==
    /\ op = "encode"
    /\ msg.type = CLIENT_HELLO
    /\ msg.protocolMajor = 2 /\ msg.protocolMinor = 1
    /\ msg.clientIdent = <<>>
    /\ buf = <<1, 3, 0, 0>>

(***************************************************************************)
(* C10.  Entry flags byte: entryFlagsToUInt8 yields 1 for persistent flags *)
(* and 0 for all others (null and non-object flags included), so bits      *)
(* 1..7 are zero; UInt8ToEntryFlags yields persistent iff bit 0 of the     *)
(* byte is set, whatever bits 1..7 are; and the round trip through both    *)
(* keeps persistent.                                                       *)
(***************************************************************************)
C10_FlagsByte ==
    /\ op = "flagsToUInt8" => out.byte = (IF Persistent(msg.entryFlags) THEN 1 ELSE 0)
    /\ op = "uint8ToFlags" => out.flags = Flag(buf[1] % 2 = 1)
    /\ op = "flagsRoundTrip" => out.flags.persistent = Persistent(msg.entryFlags)

C10_Witness ==
    /\ op = "uint8ToFlags"
    /\ buf = <<254>>
    /\ ~out.flags.persistent


(***************************************************************************)
(* C11.  RPC definition version: encodeRPCDefinition writes 0x01 as the    *)
(* first byte of the serialized definition, and decodeRPCDefinition throws *)
(* UnsupportedRpcVersion, returning no definition, whenever the byte at    *)
(* its starting offset is not 0x01, an offset at or past the end of the    *)
(* buffer included.                                                        *)
(***************************************************************************)
C11_RpcVersion ==
    /\ (op = "encodeRPCDefinition" /\ out.ok) => buf[1] = 1
    /\ (op = "decodeRPCDefinition" /\ At(buf, offset) # 1)
            => out = Throw("UnsupportedRpcVersion")

C11_Witness ==
    /\ op = "decodeRPCDefinition" /\ from = "version"
    /\ offset > Len(buf)
    /\ out = Throw("UnsupportedRpcVersion")

\* The serialized definition of the RPC value an encoder was handed.
DefinitionBytes(m) == encodeRPCDefinition(m.entryValue.rpc).bytes

(***************************************************************************)
(* C12.  RPC entry value length prefix: the bytes entryValueToBuffer       *)
(* returns for an RPC definition are the unsigned LEB128 encoding of the   *)
(* length of the serialized definition followed by the serialized          *)
(* definition, and fromUnsignedLEB128 reads that length back and stops     *)
(* where the definition starts, also for a length of 128 or more.          *)
(***************************************************************************)
C12_LengthPrefix ==
    (op \in {"encodeValue", "decodeValue"} /\ msg.entryType = RPC_T
     /\ Matches(RPC_T, msg.entryValue))
        => /\ buf = toUnsignedLEB128(Len(DefinitionBytes(msg))) \o DefinitionBytes(msg)
           /\ fromUnsignedLEB128(buf, 0).ok
           /\ fromUnsignedLEB128(buf, 0).value = Len(DefinitionBytes(msg))
           /\ fromUnsignedLEB128(buf, 0).offset = Len(buf) - Len(DefinitionBytes(msg))

(***************************************************************************)
(* C14.  RPC definition round-trip: an RPC value whose definition has      *)
(* parameters with default values is decoded by entryValueFromBuffer from  *)
(* the bytes entryValueToBuffer returned for it into the same definition   *)
(* (name, ordered parameter specs with their defaults, ordered result      *)
(* specs), with newOffset the length of those bytes.                       *)
(***************************************************************************)
C14_DefinitionRoundTrip ==
    (op = "decodeValue" /\ msg.entryType = RPC_T
     /\ msg.entryValue.rpc.parameters # <<>>)
        => out = Value(msg.entryValue, Len(buf))

\* The three array types.
ArrayTypes == {BOOLEAN_ARRAY_T, DOUBLE_ARRAY_T, STRING_ARRAY_T}

(***************************************************************************)
(* C15.  Array count consistency: the first byte entryValueToBuffer        *)
(* returns for an array is the number of its elements, and                 *)
(* entryValueFromBuffer decodes the bytes into the same array with         *)
(* newOffset the length of the bytes; this holds for every array for which *)
(* the encoder returns bytes, arrays of more than 255 elements included.   *)
(***************************************************************************)
C15_ArrayCount ==
    (op \in {"encodeValue", "decodeValue"} /\ msg.entryType \in ArrayTypes
     /\ Matches(msg.entryType, msg.entryValue))
        => /\ buf # <<>>
           /\ buf[1] = Len(msg.entryValue[FieldOf(msg.entryType)])
           /\ op = "decodeValue" => out = Value(msg.entryValue, Len(buf))

\* The definition with the value payload of every result spec emptied.
Emptied(rpcDef) ==
    [rpcDef EXCEPT !.results =
        [i \in 1..Len(rpcDef.results) |-> [rpcDef.results[i] EXCEPT !.value = EmptyValue]]]

\* For each result spec its type byte, the LEB128 length of its name in
\* UTF-8 and the name in UTF-8, and nothing else.
RECURSIVE TypesAndNames(_)
TypesAndNames(results) ==
    IF results = <<>> THEN <<>>
    ELSE <<Head(results).type>> \o toUnsignedLEB128(Len(UTF8(Head(results).name)))
         \o UTF8(Head(results).name) \o TypesAndNames(Tail(results))

(***************************************************************************)
(* C13.  RPC result specs carry no default value: the serialized           *)
(* definition ends with the result count followed, for each result spec,   *)
(* by its type byte and its length-prefixed name only; and                 *)
(* decodeRPCDefinition, handed the serialized definition at any offset and *)
(* with any bytes after it, returns the definition with every result       *)
(* spec's value payload empty and newOffset the byte after the last        *)
(* result name.                                                            *)
(***************************************************************************)
C13_ResultSpecs ==
    /\ (op = "encodeRPCDefinition" /\ out.ok)
            => /\ Len(buf) > Len(TypesAndNames(msg.rpc.results))
               /\ SubSeq(buf, Len(buf) - Len(TypesAndNames(msg.rpc.results)) + 1, Len(buf))
                    = TypesAndNames(msg.rpc.results)
               /\ buf[Len(buf) - Len(TypesAndNames(msg.rpc.results))] = Len(msg.rpc.results)
    /\ (op = "decodeRPCDefinition" /\ from = "encoded")
            => out = Value(Emptied(msg.rpc),
                           offset + Len(encodeRPCDefinition(msg.rpc).bytes))

C13_Witness ==
    /\ op = "decodeRPCDefinition" /\ from = "encoded"
    /\ msg.rpc = DefResultValues
    /\ offset = 2
    /\ Len(buf) > offset + Len(encodeRPCDefinition(msg.rpc).bytes)
    /\ out.ok
    /\ out.value.results[1].value = EmptyValue
    /\ out.value.results[2].name = <<233>>

\* A state in which getNextAvailableMessage has just returned.
Returned == op \in {"getNext", "read"}

(***************************************************************************)
(* C16.  Parse progress and bounds: whenever getNextAvailableMessage       *)
(* returns a parsed message, its newOffset is greater than the offset it   *)
(* was called with and at most the length of the buffer.                   *)
(***************************************************************************)
C16_ParseProgress ==
    (Returned /\ out.ok) => (offset < out.newOffset /\ out.newOffset <= Len(buf))

\* Every spec of the list has one of the eight entry types.
Recognized(specs) == \A i \in 1..Len(specs) : specs[i].type \in ByteToV3EntryType

(***************************************************************************)
(* C17.  Decoded entry types are always recognized: in every message       *)
(* getNextAvailableMessage returns, the entryType of an ENTRY_ASSIGNMENT   *)
(* or ENTRY_UPDATE and the type of every parameter spec and result spec of *)
(* an RPC definition it carries is one of the eight entry types.           *)
(***************************************************************************)
C17_RecognizedTypes ==
    (Returned /\ out.ok /\ out.message.type \in {ENTRY_ASSIGNMENT, ENTRY_UPDATE})
        => /\ out.message.entryType \in ByteToV3EntryType
           /\ out.message.entryType = RPC_T
                => /\ Recognized(out.message.entryValue.rpc.parameters)
                   /\ Recognized(out.message.entryValue.rpc.results)

\* r is a message wrapper: an object with a message of one of the thirteen
\* types and a newOffset, and nothing that was thrown.
IsWrapper(r) ==
    /\ r.ok
    /\ DOMAIN r = {"ok", "err", "message", "newOffset"}
    /\ r.message.type \in ByteToV3MessageType

(***************************************************************************)
(* C18.  The top-level decoder is total: for every buffer, the empty one   *)
(* included, every offset, those at and past the end included, and every   *)
(* definitions map, getNextAvailableMessage returns a message wrapper or   *)
(* undefined and lets no exception of a decoder through; and a read of the *)
(* rolling buffer leaves the buffer and the definitions map as they were.  *)
(***************************************************************************)
C18_Total ==
    [][Returned' => /\ (out' = undefined \/ IsWrapper(out'))
                    /\ (op' = "read" => (buf' = buf /\ defs' = defs))]_vars

C18_Witness ==
    /\ op = "getNext" /\ from = "crafted"
    /\ buf = <<>>
    /\ offset = 1
    /\ defs # NoDefs
    /\ out = undefined

====
